---- MODULE Spec2Model ----
(***************************************************************************)
(* Model of charon's structured control-flow AST and of the pass that      *)
(* reconstructs assertions (reconstruct_asserts.rs).                       *)
(***************************************************************************)
EXTENDS Integers, Sequences, FiniteSets, TLC

VARIABLES
    pc,     \* position of the driver of the pass under study
    st,     \* the statement handed to simplify_st
    out,    \* the statement returned by the last call of simplify_st
    prev,   \* the statement returned by the call before the last one
    defs,   \* FunDecls handed to simplify
    todo,   \* declarations the iterator of simplify has not consumed yet
    done,   \* declarations collected so far by FunDecls::from_iter
    blocks, \* the block graph handed to structure: blocks[b] is block b, 1 the entry
    nalloc, \* number of block ids the lowering step has referred to so far
    result, \* what structure returned
    hash_seed, \* the keys of the process's RandomState, which order a HashMap
    crate,  \* the crate handed to register_crate: its items and its CrateInfo
    rdecls, \* the RegisteredDeclarations register_crate fills
    stack,  \* the calls of the registration in progress, innermost last
    audit,  \* per def id, how often it was explored and how often inserted
    self_ty, \* the type contains_region_var and contains_variables are called on
    rset    \* the set of region ids handed to contains_region_var

vars == <<pc, st, out, prev, defs, todo, done, blocks, nalloc, result, hash_seed,
          crate, rdecls, stack, audit, self_ty, rset>>

None == [tag |-> "None"]

(***************************************************************************)
(* Bounds of the explored inputs.                                          *)
(***************************************************************************)
MaxNodes == 5       \* number of nodes of the statement handed to simplify_st
MaxDefs == 2        \* number of declarations handed to simplify

Operands == {"c1", "c2"}
IntTys == {"I32", "U8"}
ScalarValues == {0, 1}

(***************************************************************************)
(* Statement (the enum matched by simplify_st).  Assign stands for the     *)
(* leaves the pass moves without looking at them (Assign, FakeRead,        *)
(* SetDiscriminant, Drop, Call).                                           *)
(***************************************************************************)
Assign(p) == [tag |-> "Assign", p |-> p]
StAssert(cond, expected) == [tag |-> "Assert", cond |-> cond, expected |-> expected]
Panic == [tag |-> "Panic"]
Return == [tag |-> "Return"]
Break(i) == [tag |-> "Break", i |-> i]
Continue(i) == [tag |-> "Continue", i |-> i]
Nop == [tag |-> "Nop"]
Switch(op, targets) == [tag |-> "Switch", op |-> op, targets |-> targets]
Loop(body) == [tag |-> "Loop", body |-> body]
Sequence(st1, st2) == [tag |-> "Sequence", st1 |-> st1, st2 |-> st2]

\* SwitchTargets
If(st1, st2) == [tag |-> "If", st1 |-> st1, st2 |-> st2]
SwitchInt(int_ty, targets, otherwise) ==
    [tag |-> "SwitchInt", int_ty |-> int_ty, targets |-> targets, otherwise |-> otherwise]

\* A panic reached through no-op statements only: Panic, Sequence(Nop, Panic), ...
RECURSIVE NopsThenPanic(_)
NopsThenPanic(s) ==
    \/ s.tag = "Panic"
    \/ /\ s.tag = "Sequence"
       /\ s.st1.tag = "Nop"
       /\ NopsThenPanic(s.st2)

\* is_panic, had it looked through leading no-ops.
is_panic_skipping_nops(s) == NopsThenPanic(s)

\* Statement::is_panic, generated by derive(EnumIsA): the variant test.
is_panic(s) == s.tag = "Panic"

(***************************************************************************)
(* simplify_st                                                             *)
(***************************************************************************)
RECURSIVE simplify_st(_)

\* The If arm, had it kept the else branch as it is when it folds.
simplify_st_If_else_kept(op, st1, st2) ==
    IF is_panic(st1)
    THEN Sequence(StAssert(op, FALSE), st2)
    ELSE Switch(op, If(simplify_st(st1), simplify_st(st2)))

\* The If arm, had it built the assertion with expected = true.
simplify_st_If_expected_true(op, st1, st2) ==
    LET st2s == simplify_st(st2) IN
    IF is_panic(st1)
    THEN Sequence(StAssert(op, TRUE), st2s)
    ELSE Switch(op, If(simplify_st(st1), st2s))

\* The If arm, had it kept the then branch as it is when it does not fold.
simplify_st_If_then_kept(op, st1, st2) ==
    LET st2s == simplify_st(st2) IN
    IF is_panic(st1)
    THEN Sequence(StAssert(op, FALSE), st2s)
    ELSE Switch(op, If(st1, st2s))

\* The If arm, had it folded the mirrored shape as well.
simplify_st_If_symmetric(op, st1, st2) ==
    LET st2s == simplify_st(st2) IN
    IF is_panic(st1)
    THEN Sequence(StAssert(op, FALSE), st2s)
    ELSE IF is_panic(st2)
         THEN Sequence(StAssert(op, TRUE), simplify_st(st1))
         ELSE Switch(op, If(simplify_st(st1), st2s))

\* The arm SwitchTargets::If(st1, st2) of simplify_st.
simplify_st_If(op, st1, st2) ==
    LET st2s == simplify_st(st2) IN
    IF is_panic(st1)
    THEN Sequence(StAssert(op, FALSE), st2s)
    ELSE Switch(op, If(simplify_st(st1), st2s))

\* The SwitchInt arm, had it collected the branches in reverse order.
simplify_st_SwitchInt_reversed(op, int_ty, targets, otherwise) ==
    Switch(op, SwitchInt(int_ty,
                         [i \in DOMAIN targets |->
                             LET j == Len(targets) + 1 - i
                             IN  <<targets[j][1], simplify_st(targets[j][2])>>],
                         simplify_st(otherwise)))

\* The SwitchInt arm, had it left the otherwise branch as it is.
simplify_st_SwitchInt_otherwise_kept(op, int_ty, targets, otherwise) ==
    Switch(op, SwitchInt(int_ty,
                         [i \in DOMAIN targets |->
                             <<targets[i][1], simplify_st(targets[i][2])>>],
                         otherwise))

\* The SwitchInt arm, had targets been a HashMap: its iteration order depends
\* on the keys of the process's RandomState.
simplify_st_SwitchInt_hashed(op, int_ty, targets, otherwise) ==
    Switch(op, SwitchInt(int_ty,
                         [i \in DOMAIN targets |->
                             LET j == IF hash_seed = 0 THEN i ELSE Len(targets) + 1 - i
                             IN  <<targets[j][1], simplify_st(targets[j][2])>>],
                         simplify_st(otherwise)))

\* The arm SwitchTargets::SwitchInt(int_ty, targets, otherwise) of simplify_st.
\* targets is the LinkedHashMap in its iteration order: a sequence of <<v, e>>.
simplify_st_SwitchInt(op, int_ty, targets, otherwise) ==
    Switch(op, SwitchInt(int_ty,
                         [i \in DOMAIN targets |->
                             <<targets[i][1], simplify_st(targets[i][2])>>],
                         simplify_st(otherwise)))

\* simplify_st, had it put the simplified body of a Loop in place of the Loop.
simplify_st_Loop_dropped(s) ==
    CASE s.tag = "Switch" ->
            IF s.targets.tag = "If"
            THEN simplify_st_If(s.op, s.targets.st1, s.targets.st2)
            ELSE simplify_st_SwitchInt(s.op, s.targets.int_ty, s.targets.targets,
                                       s.targets.otherwise)
      [] s.tag = "Loop" -> simplify_st(s.body)
      [] s.tag = "Sequence" -> Sequence(simplify_st(s.st1), simplify_st(s.st2))
      [] OTHER -> s

\* simplify_st, had it returned a Loop without looking into its body.
simplify_st_Loop_kept(s) ==
    CASE s.tag = "Switch" ->
            IF s.targets.tag = "If"
            THEN simplify_st_If(s.op, s.targets.st1, s.targets.st2)
            ELSE simplify_st_SwitchInt(s.op, s.targets.int_ty, s.targets.targets,
                                       s.targets.otherwise)
      [] s.tag = "Sequence" -> Sequence(simplify_st(s.st1), simplify_st(s.st2))
      [] OTHER -> s

simplify_st(s) ==
    CASE s.tag = "Switch" ->
            IF s.targets.tag = "If"
            THEN simplify_st_If(s.op, s.targets.st1, s.targets.st2)
            ELSE simplify_st_SwitchInt(s.op, s.targets.int_ty, s.targets.targets,
                                       s.targets.otherwise)
      [] s.tag = "Loop" -> Loop(simplify_st(s.body))
      [] s.tag = "Sequence" -> Sequence(simplify_st(s.st1), simplify_st(s.st2))
      [] OTHER -> s

(***************************************************************************)
(* The statements of at most MaxNodes nodes.                                *)
(***************************************************************************)
Leaves == {Panic, Return, Nop, Break(0), Break(1), Continue(0), StAssert("c1", TRUE)}

\* The pairs <<a, b>> of statements of i and n - i nodes, for every i >= from.
RECURSIVE Pairs(_, _, _)
Pairs(bySize, n, from) ==
    IF from > n - 1 THEN {}
    ELSE (bySize[from] \X bySize[n - from]) \cup Pairs(bySize, n, from + 1)

\* The triples <<a, b, c>> of statements of n nodes together, a of at least from.
RECURSIVE Triples(_, _, _)
Triples(bySize, n, from) ==
    IF from > n - 2 THEN {}
    ELSE {<<a, p[1], p[2]>> : a \in bySize[from], p \in Pairs(bySize, n - from, 1)}
         \cup Triples(bySize, n, from + 1)

\* The statements of exactly n nodes, given bySize[i] for every i < n.
StatementsOfSize(bySize, n) ==
    IF n = 1 THEN Leaves
    ELSE
      {Loop(b) : b \in bySize[n - 1]}
      \cup {Sequence(p[1], p[2]) : p \in Pairs(bySize, n - 1, 1)}
      \cup {Switch(op, If(p[1], p[2])) : op \in Operands, p \in Pairs(bySize, n - 1, 1)}
      \cup {Switch(op, SwitchInt(ty, <<<<v, t[1]>>, <<1 - v, t[2]>>>>, t[3])) :
                op \in Operands, ty \in IntTys, v \in ScalarValues,
                t \in Triples(bySize, n - 1, 1)}

RECURSIVE StatementsBySize(_)
StatementsBySize(n) ==
    IF n = 0 THEN <<>>
    ELSE LET bySize == StatementsBySize(n - 1)
         IN  Append(bySize, StatementsOfSize(bySize, n))

RECURSIVE UpTo(_, _)
UpTo(bySize, n) == IF n = 0 THEN {} ELSE bySize[n] \cup UpTo(bySize, n - 1)

\* s is a statement of at most MaxNodes nodes.  The statements of exactly
\* MaxNodes nodes are enumerated constructor by constructor.
IsStatement(s) ==
    LET bySize == StatementsBySize(MaxNodes - 1)
        n == MaxNodes
    IN  \/ s \in UpTo(bySize, n - 1)
        \/ \E b \in bySize[n - 1] : s = Loop(b)
        \/ \E p \in Pairs(bySize, n - 1, 1) : s = Sequence(p[1], p[2])
        \/ \E op \in Operands, p \in Pairs(bySize, n - 1, 1) : s = Switch(op, If(p[1], p[2]))
        \/ \E op \in Operands, ty \in IntTys, v \in ScalarValues,
              t \in Triples(bySize, n - 1, 1) :
                s = Switch(op, SwitchInt(ty, <<<<v, t[1]>>, <<1 - v, t[2]>>>>, t[3]))

(***************************************************************************)
(* The pass applied to one statement, then to its own result.              *)
(***************************************************************************)
Init ==
    /\ pc = "start"
    /\ IsStatement(st)
    /\ out = None
    /\ prev = None
    /\ defs = <<>>
    /\ todo = <<>>
    /\ done = <<>>
    /\ blocks = <<>>
    /\ nalloc = 0
    /\ result = None
    /\ hash_seed = 0
    /\ crate = None
    /\ rdecls = None
    /\ stack = <<>>
    /\ audit = None
    /\ self_ty = None
    /\ rset = {}

Simplify ==
    /\ pc = "start"
    /\ out' = simplify_st(st)
    /\ pc' = "once"
    /\ UNCHANGED <<st, prev, defs, todo, done, blocks, nalloc, result, hash_seed,
                 crate, rdecls, stack, audit, self_ty, rset>>

SimplifyAgain ==
    /\ pc = "once"
    /\ prev' = out
    /\ out' = simplify_st(out)
    /\ pc' = "twice"
    /\ UNCHANGED <<st, defs, todo, done, blocks, nalloc, result, hash_seed,
                 crate, rdecls, stack, audit, self_ty, rset>>

Next == Simplify \/ SimplifyAgain

Spec == Init /\ [][Next]_vars

(***************************************************************************)
(* simplify over the function declarations.  A FunDecl is its def_id, its  *)
(* name and its optional body; a body is its locals and its statement.     *)
(***************************************************************************)
Names == {"f", "g"}
Bodies ==
    {None} \cup
    {[locals |-> n, body |-> b] :
        n \in {1},
        b \in {Return,
               Switch("c1", If(Panic, Return)),
               Loop(Switch("c2", If(Panic, Break(0)))),
               Switch("c1", If(Return, Panic))}}

\* simplify_def, had it given every declaration a body.
simplify_def_body_forced(def) ==
    [def EXCEPT !.body =
        IF def.body # None
        THEN [def.body EXCEPT !.body = simplify_st(def.body.body)]
        ELSE [locals |-> 0, body |-> Nop]]

simplify_def(def) ==
    [def EXCEPT !.body =
        IF def.body # None
        THEN [def.body EXCEPT !.body = simplify_st(def.body.body)]
        ELSE None]

\* FunDecls: a vector indexed by def id (ids count from 0, positions from 1).
FunDecls ==
    UNION {{[i \in 1..n |-> [def_id |-> i - 1, name |-> nb[i][1], body |-> nb[i][2]]] :
                nb \in [1..n -> Names \X Bodies]} : n \in 0..MaxDefs}

InitDefs ==
    /\ pc = "start"
    /\ defs \in FunDecls
    /\ todo = <<>>
    /\ done = <<>>
    /\ st = None
    /\ out = None
    /\ prev = None
    /\ blocks = <<>>
    /\ nalloc = 0
    /\ result = None
    /\ hash_seed = 0
    /\ crate = None
    /\ rdecls = None
    /\ stack = <<>>
    /\ audit = None
    /\ self_ty = None
    /\ rset = {}

\* simplify is called: defs.into_iter()
SimplifyCall ==
    /\ pc = "start"
    /\ todo' = defs
    /\ done' = <<>>
    /\ pc' = "iter"
    /\ UNCHANGED <<st, out, prev, defs, blocks, nalloc, result, hash_seed,
                 crate, rdecls, stack, audit, self_ty, rset>>

\* from_iter pulls the next declaration through map(simplify_def)
SimplifyEach ==
    /\ pc = "iter"
    /\ todo # <<>>
    /\ done' = Append(done, simplify_def(Head(todo)))
    /\ todo' = Tail(todo)
    /\ UNCHANGED <<pc, st, out, prev, defs, blocks, nalloc, result, hash_seed,
                 crate, rdecls, stack, audit, self_ty, rset>>

\* the iterator is exhausted: simplify returns the collected vector
SimplifyReturn ==
    /\ pc = "iter"
    /\ todo = <<>>
    /\ pc' = "done"
    /\ UNCHANGED <<st, out, prev, defs, todo, done, blocks, nalloc, result, hash_seed,
                 crate, rdecls, stack, audit, self_ty, rset>>

NextDefs == SimplifyCall \/ SimplifyEach \/ SimplifyReturn

\* The pass is one sequential call: it runs until it returns.
SpecDefs == InitDefs /\ [][NextDefs]_vars /\ WF_vars(NextDefs)


(***************************************************************************)
(* The block graph handed to the structuring engine.  A block is its id,   *)
(* its statements and its terminator; every block carries one statement,   *)
(* the assignment named after the block, so that a walk can be told from   *)
(* another by the statements it visits.                                    *)
(***************************************************************************)
MaxBlocks == 4      \* number of blocks of the graph
MaxTrace == 6       \* number of statements a walk visits before it is cut

NoBlock == 0

Goto(t) == [tag |-> "Goto", target |-> t]
BranchIf(cond, a, b) == [tag |-> "If", cond |-> cond, then_target |-> a, else_target |-> b]
TermSwitchInt(cond, int_ty, cases, default_target) ==
    [tag |-> "SwitchInt", cond |-> cond, int_ty |-> int_ty, cases |-> cases,
     default_target |-> default_target]
TermReturn == [tag |-> "Return"]
TermAbort == [tag |-> "Abort"]
Block(id, term) == [id |-> id, stmts |-> <<Assign(id)>>, term |-> term]

Min(a, b) == IF a < b THEN a ELSE b
Max(a, b) == IF a < b THEN b ELSE a
SetMax(S) == CHOOSE x \in S : \A y \in S : y <= x
SetMin(S) == CHOOSE x \in S : \A y \in S : x <= y

Succs(g, b) ==
    CASE g[b].term.tag = "Goto" -> {g[b].term.target}
      [] g[b].term.tag = "If" -> {g[b].term.then_target, g[b].term.else_target}
      [] g[b].term.tag = "SwitchInt" ->
            {g[b].term.cases[i][2] : i \in DOMAIN g[b].term.cases}
                \cup {g[b].term.default_target}
      [] OTHER -> {}

Preds(g, b) == {p \in DOMAIN g : b \in Succs(g, p)}

Edges(g) == {e \in (DOMAIN g) \X (DOMAIN g) : e[2] \in Succs(g, e[1])}

\* The blocks reached from S along the edges E without entering avoid.
RECURSIVE Closure(_, _, _)
Closure(E, S, avoid) ==
    LET S2 == S \cup ({e[2] : e \in {d \in E : d[1] \in S}} \ avoid)
    IN  IF S2 = S THEN S ELSE Closure(E, S2, avoid)

(***************************************************************************)
(* Dominance/Loop Analyzer                                                 *)
(***************************************************************************)
Inter(sets, all) == {x \in all : \A T \in sets : x \in T}

\* Iterative dataflow: D[b] is the set of the dominators of b.
RECURSIVE DomFix(_, _)
DomFix(g, D) ==
    LET D2 == [b \in DOMAIN g |->
                  IF b = 1 THEN {1}
                  ELSE {b} \cup Inter({D[p] : p \in Preds(g, b)}, DOMAIN g)]
    IN  IF D2 = D THEN D ELSE DomFix(g, D2)

Dominators(g) == DomFix(g, [b \in DOMAIN g |-> DOMAIN g])

ExitBlocks(g) == {b \in DOMAIN g : g[b].term.tag \in {"Return", "Abort"}}

\* Some path leads from b to an exit without entering avoid.
CanExit(g, b, avoid) ==
    /\ b \notin avoid
    /\ Closure(Edges(g), {b}, avoid) \cap ExitBlocks(g) # {}

\* d post-dominates b: every path from b to an exit passes through d.
PostDominates(g, d, b) == d = b \/ ~CanExit(g, b, {d})

\* The immediate post-dominator of b, or NoBlock.
ImmediatePostDominator(g, b) ==
    LET strict == {d \in DOMAIN g \ {b} : PostDominates(g, d, b)}
    IN  IF ~CanExit(g, b, {}) \/ strict = {} THEN NoBlock
        ELSE CHOOSE d \in strict : \A e \in strict : PostDominates(g, e, d)

\* A back-edge is an edge u -> v where v dominates u.
BackEdges(g) == LET dom == Dominators(g) IN {e \in Edges(g) : e[2] \in dom[e[1]]}

Headers(g) == {e[2] : e \in BackEdges(g)}

\* The body of the loop of header v: the blocks dominated by v that can reach
\* the source of a back-edge to v without leaving the dominated set.
LoopBody(g, v) ==
    LET dom == Dominators(g)
        dominated == {b \in DOMAIN g : v \in dom[b]}
        sources == {e[1] : e \in {d \in BackEdges(g) : d[2] = v}}
    IN  {v} \cup {b \in dominated :
                    Closure(Edges(g), {b}, DOMAIN g \ dominated) \cap sources # {}}

ExitEdges(g, v) ==
    LET body == LoopBody(g, v) IN {e \in Edges(g) : e[1] \in body /\ e[2] \notin body}

ExitTargets(g, v) == {e[2] : e \in ExitEdges(g, v)}

\* The blocks on a cycle that goes through no back-edge.
IrreducibleBlocks(g) ==
    LET fwd == Edges(g) \ BackEdges(g)
    IN  {b \in DOMAIN g : b \in Closure(fwd, {e[2] : e \in {d \in fwd : d[1] = b}}, {})}

Reducible(g) == IrreducibleBlocks(g) = {}

(***************************************************************************)
(* Join-Point Resolver: the join of the edges that diverge at origin is    *)
(* the immediate post-dominator of origin, when defined.                   *)
(***************************************************************************)
JoinPoint(g, origin) == ImmediatePostDominator(g, origin)

\* The join of several targets: the nearest block that lies on every path from
\* each target to an exit, or NoBlock when the paths never reunite.
JoinOfTargets(g, targets) ==
    LET common == {d \in DOMAIN g : \A t \in targets :
                                      CanExit(g, t, {}) /\ PostDominates(g, d, t)}
    IN  IF common = {} THEN NoBlock
        ELSE CHOOSE d \in common : \A e \in common : PostDominates(g, e, d)

\* Where structuring goes on after the loop of header v: its exit target, or
\* the join of its exit targets when there are several.
AfterLoop(g, v) ==
    LET targets == ExitTargets(g, v)
    IN  IF targets = {} THEN NoBlock
        ELSE IF Cardinality(targets) = 1 THEN CHOOSE t \in targets : TRUE
        ELSE JoinOfTargets(g, targets)

\* What the engine reads of the analysis while it builds.
Analysis(g) ==
    [headers |-> Headers(g),
     body |-> [v \in Headers(g) |-> LoopBody(g, v)],
     after |-> [v \in Headers(g) |-> AfterLoop(g, v)],
     join |-> [b \in DOMAIN g |-> JoinPoint(g, b)]]

(***************************************************************************)
(* Structuring Engine                                                      *)
(***************************************************************************)
\* scopes lists the enclosing loop headers, innermost last.
InScopes(b, scopes) == \E i \in DOMAIN scopes : scopes[i] = b

\* Distance from the innermost scope to the header b.
ContinueDepth(b, scopes) ==
    Len(scopes) - SetMax({i \in DOMAIN scopes : scopes[i] = b})

\* Had the depth been counted from the outermost scope.
BreakDepth_outermost_first(an, t, scopes) ==
    LET holding == {i \in DOMAIN scopes : t \in an.body[scopes[i]]}
    IN  IF holding = {} THEN Len(scopes) ELSE SetMax(holding) + 1

\* The depth of the break that reaches t: the number of loop scopes exited,
\* counted innermost-first from 0.
BreakDepth(an, t, scopes) ==
    LET holding == {i \in DOMAIN scopes : t \in an.body[scopes[i]]}
    IN  IF holding = {} THEN Len(scopes) - 1 ELSE Len(scopes) - SetMax(holding) - 1

RECURSIVE Prefixed(_, _)
Prefixed(stmts, rest) ==
    IF stmts = <<>> THEN rest ELSE Sequence(Head(stmts), Prefixed(Tail(stmts), rest))

(* build follows an edge to block b.  The rules for the target of a Goto are  *)
(* applied to the target of every edge alike (every loop-exiting edge is a  *)
(* break, every edge to an enclosing header a continue), after the test of  *)
(* stop_at, which is step 1.  A header that is not in scopes opens a Loop.  *)
RECURSIVE build(_, _, _, _, _)
RECURSIVE build_block(_, _, _, _, _)

\* Had the If branches been emitted else first.
build_block_else_first(g, an, b, stop_at, scopes) ==
    LET term == g[b].term
        rest ==
          CASE term.tag = "Goto" -> build(g, an, term.target, stop_at, scopes)
            [] term.tag = "If" ->
                  LET j == an.join[b]
                      sw == Switch(term.cond,
                                   If(build(g, an, term.else_target, j, scopes),
                                      build(g, an, term.then_target, j, scopes)))
                  IN  IF j = NoBlock THEN sw
                      ELSE Sequence(sw, build(g, an, j, stop_at, scopes))
            [] term.tag = "SwitchInt" ->
                  LET j == an.join[b]
                      sw == Switch(term.cond,
                                   SwitchInt(term.int_ty,
                                             [i \in DOMAIN term.cases |->
                                                 <<term.cases[i][1],
                                                   build(g, an, term.cases[i][2], j, scopes)>>],
                                             build(g, an, term.default_target, j, scopes)))
                  IN  IF j = NoBlock THEN sw
                      ELSE Sequence(sw, build(g, an, j, stop_at, scopes))
            [] term.tag = "Return" -> Return
            [] term.tag = "Abort" -> Panic
    IN  Prefixed(g[b].stmts, rest)

\* Steps 2 and 3 of build: the statements of the block, then its terminator.
build_block(g, an, b, stop_at, scopes) ==
    LET term == g[b].term
        rest ==
          CASE term.tag = "Goto" -> build(g, an, term.target, stop_at, scopes)
            [] term.tag = "If" ->
                  LET j == an.join[b]
                      sw == Switch(term.cond,
                                   If(build(g, an, term.then_target, j, scopes),
                                      build(g, an, term.else_target, j, scopes)))
                  IN  IF j = NoBlock THEN sw
                      ELSE Sequence(sw, build(g, an, j, stop_at, scopes))
            [] term.tag = "SwitchInt" ->
                  LET j == an.join[b]
                      sw == Switch(term.cond,
                                   SwitchInt(term.int_ty,
                                             [i \in DOMAIN term.cases |->
                                                 <<term.cases[i][1],
                                                   build(g, an, term.cases[i][2], j, scopes)>>],
                                             build(g, an, term.default_target, j, scopes)))
                  IN  IF j = NoBlock THEN sw
                      ELSE Sequence(sw, build(g, an, j, stop_at, scopes))
            [] term.tag = "Return" -> Return
            [] term.tag = "Abort" -> Panic
    IN  Prefixed(g[b].stmts, rest)

\* build(block_id, stop_at, scopes)
build(g, an, b, stop_at, scopes) ==
    IF b = stop_at THEN Nop
    ELSE IF InScopes(b, scopes) THEN Continue(ContinueDepth(b, scopes))
    ELSE IF scopes # <<>> /\ b \notin an.body[scopes[Len(scopes)]]
         THEN Break(BreakDepth(an, b, scopes))
    ELSE IF b \in an.headers
         THEN LET loop == Loop(build_block(g, an, b, NoBlock, Append(scopes, b)))
              IN  IF an.after[b] = NoBlock THEN loop
                  ELSE Sequence(loop, build(g, an, an.after[b], stop_at, scopes))
    ELSE build_block(g, an, b, stop_at, scopes)

\* Had the error always named the entry block.
structure_offending_entry(g) ==
    IF Reducible(g)
    THEN [ok |-> TRUE, tree |-> build(g, Analysis(g), 1, NoBlock, <<>>)]
    ELSE [ok |-> FALSE, error |-> "IrreducibleControlFlow", offending_block |-> 1]

\* structure(graph, analysis) -> Result<StructuredExpression, IrreducibleControlFlow>
structure(g) ==
    IF Reducible(g)
    THEN [ok |-> TRUE, tree |-> build(g, Analysis(g), 1, NoBlock, <<>>)]
    ELSE [ok |-> FALSE, error |-> "IrreducibleControlFlow",
          offending_block |-> SetMin(IrreducibleBlocks(g))]

(***************************************************************************)
(* The lowering step hands over a graph block by block: block ids are      *)
(* given out in the order the terminators first refer to them.  structure  *)
(* runs once every block referred to is there.                             *)
(***************************************************************************)
InitStructure ==
    /\ pc = "lowering"
    /\ blocks = <<>>
    /\ nalloc = 1
    /\ result = None
    /\ st = None
    /\ out = None
    /\ prev = None
    /\ defs = <<>>
    /\ todo = <<>>
    /\ done = <<>>
    /\ hash_seed = 0
    /\ crate = None
    /\ rdecls = None
    /\ stack = <<>>
    /\ audit = None
    /\ self_ty = None
    /\ rset = {}

AddBlock(term, refs) ==
    /\ pc = "lowering"
    /\ Len(blocks) < nalloc
    /\ blocks' = Append(blocks, Block(Len(blocks) + 1, term))
    /\ nalloc' = refs
    /\ UNCHANGED <<pc, result, st, out, prev, defs, todo, done, hash_seed,
                 crate, rdecls, stack, audit, self_ty, rset>>

AddGoto ==
    \E t \in 1..Min(nalloc + 1, MaxBlocks) :
        AddBlock(Goto(t), Max(nalloc, t))

AddIf ==
    \E a \in 1..Min(nalloc + 1, MaxBlocks) :
        \E b \in 1..Min(Max(nalloc, a) + 1, MaxBlocks) :
            AddBlock(BranchIf(Len(blocks) + 1, a, b), Max(Max(nalloc, a), b))

AddReturn == AddBlock(TermReturn, nalloc)

AddAbort == AddBlock(TermAbort, nalloc)

Structure ==
    /\ pc = "lowering"
    /\ Len(blocks) = nalloc
    /\ result' = structure(blocks)
    /\ pc' = "structured"
    /\ UNCHANGED <<blocks, nalloc, st, out, prev, defs, todo, done, hash_seed,
                 crate, rdecls, stack, audit, self_ty, rset>>

NextStructure == AddGoto \/ AddIf \/ AddReturn \/ AddAbort \/ Structure

SpecStructure == InitStructure /\ [][NextStructure]_vars

(***************************************************************************)
(* The pipeline run twice on one graph: structure, then the canonicalizer. *)
(* Here the entry block may switch on an integer, over two cases declared  *)
(* in either order of their values.                                        *)
(***************************************************************************)
MaxSwitchBlocks == 3     \* number of blocks of a graph the pipeline runs twice on

CaseValues == {<<0, 1>>, <<1, 0>>}

AddSwitchInt ==
    /\ blocks = <<>>
    /\ \E vs \in CaseValues :
         \E a \in 1..Min(nalloc + 1, MaxBlocks) :
           \E b \in 1..Min(Max(nalloc, a) + 1, MaxBlocks) :
             \E c \in 1..Min(Max(Max(nalloc, a), b) + 1, MaxBlocks) :
               AddBlock(TermSwitchInt(1, "U8", <<<<vs[1], a>>, <<vs[2], b>>>>, c),
                        Max(Max(Max(nalloc, a), b), c))

\* RandomState draws its keys anew in every process.
HashSeeds == {0, 1}

\* structure, then canonicalize when structure returned a tree
Pipeline(g) ==
    LET r == structure(g)
    IN  [result |-> r, canonical |-> IF r.ok THEN simplify_st(r.tree) ELSE None]

RunPipeline ==
    /\ pc = "lowering"
    /\ Len(blocks) = nalloc
    /\ LET run == Pipeline(blocks)
       IN  result' = run.result /\ out' = run.canonical
    /\ pc' = "ran"
    /\ hash_seed' \in HashSeeds
    /\ UNCHANGED <<blocks, nalloc, st, prev, defs, todo, done,
                 crate, rdecls, stack, audit, self_ty, rset>>

\* the second run on the same graph, in another process; prev keeps what the
\* first run returned
RunPipelineAgain ==
    /\ pc = "ran"
    /\ prev' = [result |-> result, canonical |-> out]
    /\ LET run == Pipeline(blocks)
       IN  result' = run.result /\ out' = run.canonical
    /\ pc' = "reran"
    /\ UNCHANGED <<blocks, nalloc, st, defs, todo, done, hash_seed,
                 crate, rdecls, stack, audit, self_ty, rset>>

LowerTwice ==
    /\ AddGoto \/ AddIf \/ AddSwitchInt \/ AddReturn \/ AddAbort
    /\ nalloc' <= MaxSwitchBlocks

NextTwice == LowerTwice \/ RunPipeline \/ RunPipelineAgain

SpecTwice == InitStructure /\ [][NextTwice]_vars

(***************************************************************************)
(* Properties of simplify_st.                                              *)
(***************************************************************************)
IsIf(s) == s.tag = "Switch" /\ s.targets.tag = "If"
IsSwitchInt(s) == s.tag = "Switch" /\ s.targets.tag = "SwitchInt"

\* Some Switch-If node of s has exactly the Panic leaf as its then branch.
RECURSIVE HasPanicThen(_)
HasPanicThen(s) ==
    CASE s.tag = "Switch" ->
            IF s.targets.tag = "If"
            THEN \/ s.targets.st1 = Panic
                 \/ HasPanicThen(s.targets.st1)
                 \/ HasPanicThen(s.targets.st2)
            ELSE \/ \E i \in DOMAIN s.targets.targets : HasPanicThen(s.targets.targets[i][2])
                 \/ HasPanicThen(s.targets.otherwise)
      [] s.tag = "Loop" -> HasPanicThen(s.body)
      [] s.tag = "Sequence" -> HasPanicThen(s.st1) \/ HasPanicThen(s.st2)
      [] OTHER -> FALSE

RECURSIVE SumOver(_, _)
SumOver(f, n) == IF n = 0 THEN 0 ELSE f[n] + SumOver(f, n - 1)

\* The number of Assert nodes of s whose expected field is e.
RECURSIVE CountAsserts(_, _)
CountAsserts(s, e) ==
    CASE s.tag = "Assert" -> IF s.expected = e THEN 1 ELSE 0
      [] s.tag = "Switch" ->
            IF s.targets.tag = "If"
            THEN CountAsserts(s.targets.st1, e) + CountAsserts(s.targets.st2, e)
            ELSE SumOver([i \in DOMAIN s.targets.targets |->
                             CountAsserts(s.targets.targets[i][2], e)],
                         Len(s.targets.targets))
                 + CountAsserts(s.targets.otherwise, e)
      [] s.tag = "Loop" -> CountAsserts(s.body, e)
      [] s.tag = "Sequence" -> CountAsserts(s.st1, e) + CountAsserts(s.st2, e)
      [] OTHER -> 0

\* The number of Switch-If nodes of s of the mirrored shape: the else branch is
\* the Panic leaf and the then branch is not.
RECURSIVE CountMirrored(_)
CountMirrored(s) ==
    CASE s.tag = "Switch" ->
            IF s.targets.tag = "If"
            THEN (IF s.targets.st2 = Panic /\ s.targets.st1 # Panic THEN 1 ELSE 0)
                 + CountMirrored(s.targets.st1) + CountMirrored(s.targets.st2)
            ELSE SumOver([i \in DOMAIN s.targets.targets |->
                             CountMirrored(s.targets.targets[i][2])],
                         Len(s.targets.targets))
                 + CountMirrored(s.targets.otherwise)
      [] s.tag = "Loop" -> CountMirrored(s.body)
      [] s.tag = "Sequence" -> CountMirrored(s.st1) + CountMirrored(s.st2)
      [] OTHER -> 0

\* C1: canonicalization is idempotent: applied to its own result, simplify_st
\* returns that result unchanged.
C1_Idempotent == pc = "twice" => out = prev

\* C1 witness: a second pass has run on a result the first pass had to rewrite
\* below a folded If.
C1_Witness ==
    /\ pc = "twice"
    /\ IsIf(st) /\ st.targets.st1 = Panic /\ HasPanicThen(st.targets.st2)

\* C2: an If whose then branch is exactly Panic becomes
\* Sequence(Assert{cond, expected: false}, else') with the same operand and the
\* else branch canonicalized; If(cond){Panic} else {Return} becomes
\* Sequence(Assert{cond, false}, Return).
C2_FoldPanicThen ==
    pc = "once" /\ IsIf(st) /\ st.targets.st1 = Panic =>
        /\ out = Sequence(StAssert(st.op, FALSE), simplify_st(st.targets.st2))
        /\ st.targets.st2 = Return => out = Sequence(StAssert(st.op, FALSE), Return)

\* C2 witness: If(c2){Panic} else {Return} has been canonicalized.
C2_Witness == pc = "once" /\ st = Switch("c2", If(Panic, Return))

\* C3 as stated: an If whose then branch is Panic preceded by one or more Nop
\* statements is folded into Sequence(Assert{cond, false}, else'), the Nops dropped.
C3_NopPrefixFolded ==
    pc = "once" /\ IsIf(st) /\ NopsThenPanic(st.targets.st1) /\ st.targets.st1 # Panic =>
        out = Sequence(StAssert(st.op, FALSE), simplify_st(st.targets.st2))

\* C3 amended: an If whose then branch is Panic preceded by one or more Nop
\* statements is not folded: the result is the Switch-If on the same operand,
\* with the then branch (its Nops included) unchanged and the else branch
\* canonicalized.
C3_NopPrefixKept ==
    pc = "once" /\ IsIf(st) /\ NopsThenPanic(st.targets.st1) /\ st.targets.st1 # Panic =>
        out = Switch(st.op, If(st.targets.st1, simplify_st(st.targets.st2)))

\* C3 witness: If(c1){Nop; Panic} else {Return} has been canonicalized.
C3_Witness == pc = "once" /\ st = Switch("c1", If(Sequence(Nop, Panic), Return))

\* C4: an If whose then branch is not the Panic leaf stays a Switch-If on the
\* same operand, both branches canonicalized.
C4_NoFoldRecurses ==
    pc = "once" /\ IsIf(st) /\ st.targets.st1 # Panic =>
        out = Switch(st.op, If(simplify_st(st.targets.st1), simplify_st(st.targets.st2)))

\* C4 witness: an If that is kept while a fold happens inside its then branch.
C4_Witness ==
    /\ pc = "once" /\ IsIf(st) /\ st.targets.st1 # Panic
    /\ HasPanicThen(st.targets.st1)
    /\ out.targets.st1 # st.targets.st1

\* C5: the fold is asymmetric: an If with a Panic else branch and another then
\* branch stays a Switch-If with its Panic else branch (at any depth: the number
\* of such nodes is unchanged), and no Assert with expected = true is introduced.
C5_Asymmetric ==
    pc = "once" =>
        /\ IsIf(st) /\ st.targets.st2 = Panic /\ st.targets.st1 # Panic =>
              IsIf(out) /\ out.op = st.op /\ out.targets.st2 = Panic
        /\ CountMirrored(out) = CountMirrored(st)
        /\ CountAsserts(out, TRUE) = CountAsserts(st, TRUE)

\* C5 witness: if c1 { assert(c1 == true) } else { panic } has been canonicalized.
C5_Witness ==
    pc = "once" /\ st = Switch("c1", If(StAssert("c1", TRUE), Panic))

\* C6: a SwitchInt is never folded: the result is a SwitchInt on the same
\* operand and integer type, with the same case values in the same order and
\* the default, each body canonicalized.
C6_SwitchIntKept ==
    pc = "once" /\ IsSwitchInt(st) =>
        /\ IsSwitchInt(out)
        /\ out.op = st.op
        /\ out.targets.int_ty = st.targets.int_ty
        /\ Len(out.targets.targets) = Len(st.targets.targets)
        /\ \A i \in DOMAIN st.targets.targets :
              /\ out.targets.targets[i][1] = st.targets.targets[i][1]
              /\ out.targets.targets[i][2] = simplify_st(st.targets.targets[i][2])
        /\ out.targets.otherwise = simplify_st(st.targets.otherwise)

\* C6 witness: a SwitchInt with a Panic case body, its cases declared as 1 then 0.
C6_Witness ==
    /\ pc = "once" /\ IsSwitchInt(st)
    /\ st.targets.targets[1] = <<1, Panic>>
    /\ st.targets.targets[2][1] = 0
    /\ st.targets.otherwise = Panic

RECURSIVE IsTree(_)
IsTree(s) ==
    CASE s.tag \in {"Assign", "Assert", "Panic", "Return", "Break", "Continue", "Nop"} -> TRUE
      [] s.tag = "Switch" ->
            IF s.targets.tag = "If"
            THEN IsTree(s.targets.st1) /\ IsTree(s.targets.st2)
            ELSE /\ s.targets.tag = "SwitchInt"
                 /\ \A i \in DOMAIN s.targets.targets : IsTree(s.targets.targets[i][2])
                 /\ IsTree(s.targets.otherwise)
      [] s.tag = "Loop" -> IsTree(s.body)
      [] s.tag = "Sequence" -> IsTree(s.st1) /\ IsTree(s.st2)
      [] OTHER -> FALSE

\* What simplify has returned relates to what it was given.
DeclsKept ==
    /\ Len(done) = Len(defs)
    /\ \A i \in DOMAIN defs :
          /\ done[i].def_id = defs[i].def_id
          /\ done[i].name = defs[i].name
          /\ defs[i].body = None => done[i].body = None
          /\ defs[i].body # None =>
                /\ done[i].body # None
                /\ done[i].body.locals = defs[i].body.locals
                /\ IsTree(done[i].body.body)
                /\ done[i].body.body = simplify_st(defs[i].body.body)

\* C8: the pass is total: simplify returns, and it returns the same declarations
\* in the same order, each body replaced by a tree and a missing body left missing.
C8_Total == <>(pc = "done") /\ [](pc = "done" => DeclsKept)

\* C8 witness: simplify has returned declarations of which the first has no body
\* and the second had a body to rewrite.
C8_Witness ==
    /\ pc = "done" /\ Len(defs) >= 2
    /\ defs[1].body = None /\ done[1].body = None
    /\ defs[2].body # None /\ done[2].body # defs[2].body

(***************************************************************************)
(* Walking the block graph and interpreting the structured tree.  The k-th *)
(* condition evaluated takes the outcome oracle[k]; a walk is cut once it  *)
(* has visited MaxTrace statements.                                        *)
(***************************************************************************)
Oracles == [1..MaxTrace -> BOOLEAN]

\* How a statement ended: <<kind, depth>>, the depth being that of a break or
\* continue on its way to the depth-th enclosing Loop, 0 otherwise.
Ctl(kind) == <<kind, 0>>

Walked(trace, used, ctl) == [trace |-> trace, used |-> used, ctl |-> ctl]

RECURSIVE VisitAll(_, _)
VisitAll(stmts, w) ==
    IF stmts = <<>> \/ w.ctl # Ctl("next") THEN w
    ELSE IF Len(w.trace) = MaxTrace THEN Walked(w.trace, w.used, Ctl("cut"))
    ELSE VisitAll(Tail(stmts), Walked(Append(w.trace, Head(stmts)), w.used, Ctl("next")))

\* The walk of the graph g from block b on.
RECURSIVE WalkGraph(_, _, _, _)
WalkGraph(g, oracle, b, w) ==
    LET v == VisitAll(g[b].stmts, w)
        term == g[b].term
    IN  IF v.ctl # Ctl("next") THEN v
        ELSE CASE term.tag = "Goto" -> WalkGraph(g, oracle, term.target, v)
               [] term.tag = "If" ->
                     IF v.used = MaxTrace THEN Walked(v.trace, v.used, Ctl("cut"))
                     ELSE WalkGraph(g, oracle,
                                    IF oracle[v.used + 1] THEN term.then_target
                                                         ELSE term.else_target,
                                    Walked(v.trace, v.used + 1, Ctl("next")))
               [] term.tag = "Return" -> Walked(v.trace, v.used, Ctl("return"))
               [] term.tag = "Abort" -> Walked(v.trace, v.used, Ctl("abort"))

\* The interpreter of the tree: ctl tells how the statement ended, "next" when
\* control falls through.
RECURSIVE Interpret(_, _, _)
Interpret(e, oracle, w) ==
    CASE e.tag = "Assign" -> VisitAll(<<e>>, w)
      [] e.tag = "Nop" -> w
      [] e.tag = "Assert" -> w
      [] e.tag = "Return" -> Walked(w.trace, w.used, Ctl("return"))
      [] e.tag = "Panic" -> Walked(w.trace, w.used, Ctl("abort"))
      [] e.tag = "Break" -> Walked(w.trace, w.used, <<"break", e.i>>)
      [] e.tag = "Continue" -> Walked(w.trace, w.used, <<"continue", e.i>>)
      [] e.tag = "Sequence" ->
            LET r == Interpret(e.st1, oracle, w)
            IN  IF r.ctl = Ctl("next") THEN Interpret(e.st2, oracle, r) ELSE r
      [] e.tag = "Switch" ->
            IF w.used = MaxTrace THEN Walked(w.trace, w.used, Ctl("cut"))
            ELSE Interpret(IF oracle[w.used + 1] THEN e.targets.st1 ELSE e.targets.st2,
                           oracle, Walked(w.trace, w.used + 1, Ctl("next")))
      [] e.tag = "Loop" ->
            LET r == Interpret(e.body, oracle, w)
                again == r.ctl = Ctl("next") \/ r.ctl = <<"continue", 0>>
            IN  IF again
                THEN IF r.trace = w.trace /\ r.used = w.used
                     THEN Walked(r.trace, r.used, Ctl("diverge"))
                     ELSE Interpret(e, oracle, Walked(r.trace, r.used, Ctl("next")))
                ELSE IF r.ctl = <<"break", 0>> THEN Walked(r.trace, r.used, Ctl("next"))
                ELSE IF r.ctl \in {Ctl("return"), Ctl("abort"), Ctl("cut"), Ctl("diverge")} THEN r
                ELSE Walked(r.trace, r.used, <<r.ctl[1], r.ctl[2] - 1>>)

RunGraph(g, oracle) == WalkGraph(g, oracle, 1, Walked(<<>>, 0, Ctl("next")))
RunTree(e, oracle) == Interpret(e, oracle, Walked(<<>>, 0, Ctl("next")))

\* Every Break(d) and Continue(d) of e has d smaller than the number of loops
\* around it, nloops of them being around e itself.
RECURSIVE DepthsWellFormed(_, _)
DepthsWellFormed(e, nloops) ==
    CASE e.tag \in {"Break", "Continue"} -> e.i < nloops
      [] e.tag = "Switch" ->
            IF e.targets.tag = "If"
            THEN /\ DepthsWellFormed(e.targets.st1, nloops)
                 /\ DepthsWellFormed(e.targets.st2, nloops)
            ELSE /\ \A i \in DOMAIN e.targets.targets :
                        DepthsWellFormed(e.targets.targets[i][2], nloops)
                 /\ DepthsWellFormed(e.targets.otherwise, nloops)
      [] e.tag = "Loop" -> DepthsWellFormed(e.body, nloops + 1)
      [] e.tag = "Sequence" ->
            DepthsWellFormed(e.st1, nloops) /\ DepthsWellFormed(e.st2, nloops)
      [] OTHER -> TRUE

\* Some Break or Continue of e has an index of at least d.
RECURSIVE HasExitOfDepth(_, _)
HasExitOfDepth(e, d) ==
    CASE e.tag \in {"Break", "Continue"} -> e.i >= d
      [] e.tag = "Switch" ->
            HasExitOfDepth(e.targets.st1, d) \/ HasExitOfDepth(e.targets.st2, d)
      [] e.tag = "Loop" -> HasExitOfDepth(e.body, d)
      [] e.tag = "Sequence" -> HasExitOfDepth(e.st1, d) \/ HasExitOfDepth(e.st2, d)
      [] OTHER -> FALSE

Structured == pc = "structured" /\ result.ok

\* C9: depth well-formedness: in every tree structure returns, each Break(d) or
\* Continue(d) has d smaller than the number of Loop nodes around it.
C9_DepthWellFormed == Structured => DepthsWellFormed(result.tree, 0)

\* C9 witness: structure has returned a tree with a break or continue that
\* leaves the loop around the innermost one.
C9_Witness == Structured /\ HasExitOfDepth(result.tree, 1)

\* C10: semantic equivalence: whatever the outcomes of the conditions, the tree
\* visits the statements the walk of the graph visits, in the same order, and
\* ends the same way.
C10_SameWalk ==
    Structured =>
        \A oracle \in Oracles :
            LET t == RunTree(result.tree, oracle)
                w == RunGraph(blocks, oracle)
            IN  t.trace = w.trace /\ t.ctl = w.ctl

(***************************************************************************)
(* Irreducibility.                                                         *)
(***************************************************************************)
\* The blocks of S lie on cycles that stay within S.
StronglyConnected(g, S) ==
    LET E == {e \in Edges(g) : e[1] \in S /\ e[2] \in S}
    IN  /\ S # {}
        /\ \A a \in S : S \subseteq Closure(E, {e[2] : e \in {d \in E : d[1] = a}}, {})

\* The blocks through which S is entered: the first blocks of S on the paths
\* that start at the entry block.
EntriesOf(g, S) ==
    IF 1 \in S THEN {1}
    ELSE {b \in S : b \in Closure(Edges(g), {1}, S \ {b})}

\* The loops entered through more than one of their blocks.
MultiEntryLoops(g) ==
    {S \in SUBSET DOMAIN g : StronglyConnected(g, S) /\ Cardinality(EntriesOf(g, S)) >= 2}

\* C11: irreducibility rejection: for a graph with a loop that is entered from
\* outside through a block other than its header, structure returns the
\* IrreducibleControlFlow error naming a block of such a loop, and no tree.
C11_IrreducibleRejected ==
    pc = "structured" /\ MultiEntryLoops(blocks) # {} =>
        /\ ~result.ok
        /\ result.error = "IrreducibleControlFlow"
        /\ \E S \in MultiEntryLoops(blocks) : result.offending_block \in S
        /\ "tree" \notin DOMAIN result

\* C11 witness: structure has run on a graph whose entry block branches to the
\* two blocks of a cycle, neither of which is the entry block.
C11_Witness ==
    /\ pc = "structured"
    /\ blocks[1].term.tag = "If"
    /\ \E S \in MultiEntryLoops(blocks) :
          /\ 1 \notin S
          /\ EntriesOf(blocks, S) = {blocks[1].term.then_target, blocks[1].term.else_target}

(***************************************************************************)
(* Determinism and branch order.                                           *)
(***************************************************************************)
\* The first Switch node of e, met before any other branching.
RECURSIVE TopSwitch(_)
TopSwitch(e) ==
    CASE e.tag = "Switch" -> e
      [] e.tag = "Loop" -> TopSwitch(e.body)
      [] e.tag = "Sequence" ->
            IF TopSwitch(e.st1) # None THEN TopSwitch(e.st1) ELSE TopSwitch(e.st2)
      [] OTHER -> None

\* What a branch to the exit block t is: its statements, then its terminal leaf.
ExitBranch(g, t) ==
    Prefixed(g[t].stmts, IF g[t].term.tag = "Return" THEN Return ELSE Panic)

\* The branch built for the edge to t is the code of t, when t is an exit block
\* that is neither the join of the entry block nor left by a break.
BranchIsFor(g, branch, t) ==
    t \in ExitBlocks(g) /\ t # JoinPoint(g, 1) /\ 1 \notin Headers(g) =>
        branch = ExitBranch(g, t)

\* The branches of the Switch node of the entry block follow the edges of its
\* terminator: (then, else) for an If, the declared order of the cases and the
\* default last for a SwitchInt.
EntryBranchesInOrder(g, tree) ==
    LET term == g[1].term
        sw == TopSwitch(tree)
    IN  CASE term.tag = "If" ->
               /\ IsIf(sw) /\ sw.op = term.cond
               /\ BranchIsFor(g, sw.targets.st1, term.then_target)
               /\ BranchIsFor(g, sw.targets.st2, term.else_target)
          [] term.tag = "SwitchInt" ->
               /\ IsSwitchInt(sw) /\ sw.op = term.cond
               /\ sw.targets.int_ty = term.int_ty
               /\ Len(sw.targets.targets) = Len(term.cases)
               /\ \A i \in DOMAIN term.cases :
                     /\ sw.targets.targets[i][1] = term.cases[i][1]
                     /\ BranchIsFor(g, sw.targets.targets[i][2], term.cases[i][2])
               /\ BranchIsFor(g, sw.targets.otherwise, term.default_target)
          [] OTHER -> TRUE

\* The canonicalized tree keeps the cases of the entry SwitchInt in their order.
EntryCasesKept(g, canonical) ==
    g[1].term.tag = "SwitchInt" =>
        LET sw == TopSwitch(canonical)
        IN  /\ IsSwitchInt(sw)
            /\ Len(sw.targets.targets) = Len(g[1].term.cases)
            /\ \A i \in DOMAIN g[1].term.cases :
                  sw.targets.targets[i][1] = g[1].term.cases[i][1]

ScenarioB ==
    <<Block(1, Goto(2)), Block(2, BranchIf(2, 3, 4)), Block(3, Goto(2)), Block(4, TermReturn)>>

\* The control structure of e: e without the statements of the blocks.
RECURSIVE Skeleton(_)
Skeleton(e) ==
    CASE e.tag = "Sequence" ->
            IF e.st1.tag = "Assign" THEN Skeleton(e.st2)
            ELSE Sequence(Skeleton(e.st1), Skeleton(e.st2))
      [] e.tag = "Loop" -> Loop(Skeleton(e.body))
      [] e.tag = "Switch" ->
            IF e.targets.tag = "If"
            THEN Switch(e.op, If(Skeleton(e.targets.st1), Skeleton(e.targets.st2)))
            ELSE Switch(e.op, SwitchInt(e.targets.int_ty,
                                        [i \in DOMAIN e.targets.targets |->
                                            <<e.targets.targets[i][1],
                                              Skeleton(e.targets.targets[i][2])>>],
                                        Skeleton(e.targets.otherwise)))
      [] OTHER -> e

\* C13: Scenario B is structured as Loop(Switch(cond, If(Continue(0), Break(0))))
\* followed by Return: the back-edge is Continue(0), the exit edge Break(0), and
\* the Return comes after the Loop.
C13_ScenarioB ==
    pc = "structured" /\ blocks = ScenarioB =>
        /\ result.ok
        /\ Skeleton(result.tree) =
              Sequence(Loop(Switch(2, If(Continue(0), Break(0)))), Return)

(***************************************************************************)
(* register.rs: the first pass of the translation, which registers the     *)
(* declarations of a crate and their dependencies.                         *)
(***************************************************************************)
MaxCalls == 1       \* number of calls in the body of a function

\* Option::Some; Option::None is None
Some(x) == [tag |-> "Some", value |-> x]
is_some(o) == o.tag = "Some"

\* rustc_middle::ty::TyKind, as far as register_mir_ty tells the kinds apart
TyBool == [kind |-> "Bool"]
TyParam == [kind |-> "Param"]
TyAdt(did, substs) == [kind |-> "Adt", did |-> did, substs |-> substs]
TyArray(ty, const_ty) == [kind |-> "Array", ty |-> ty, const_ty |-> const_ty]
TySlice(ty) == [kind |-> "Slice", ty |-> ty]
TyRef(ty) == [kind |-> "Ref", ty |-> ty]
TyTuple(tys) == [kind |-> "Tuple", tys |-> tys]
TyFnPtr(tys) == [kind |-> "FnPtr", tys |-> tys]
TyRawPtr == [kind |-> "RawPtr"]
TyForeign == [kind |-> "Foreign"]

BaseKinds == {"Bool", "Char", "Int", "Uint", "Str", "Float", "Never"}
\* The kinds register_mir_ty answers with Err(()), had Foreign been let through.
UnsupportedKinds_but_Foreign == {"RawPtr", "Infer", "Generator", "GeneratorWitness", "Error"}

UnsupportedKinds == {"RawPtr", "Foreign", "Infer", "Generator", "GeneratorWitness", "Error"}

\* GenericArgKind
GenType(ty) == [arg |-> "Type", ty |-> ty]
GenLifetime == [arg |-> "Lifetime"]

\* The def ids.  The crate under translation defines the functions f, g and h,
\* the structures s and t, the modules o and m, the impl block imp and the use
\* item u;
\* xt, xf and Global are defined in other crates, Box and box_new as well.
LocalFuns == {"f", "g", "h"}
LocalAdts == {"s", "t"}
LocalIds == LocalFuns \cup LocalAdts \cup {"o", "m", "imp", "u"}
ExternalIds == {"xt", "xf", "Global", "Box", "box_new"}
DefIds == LocalIds \cup ExternalIds

\* DefId::is_local
is_local(did) == did \in LocalIds

BOX_FREE_NAME == "box_free"

\* assumed::type_to_used_params: Some(used) for a type with primitive support
type_to_used_params(name) == IF name = "Box" THEN Some(<<TRUE, FALSE>>) ELSE None

\* assumed::function_to_info: Some(info) for a function with primitive support
function_to_info(name) ==
    IF name = "box_new" THEN Some([used_type_params |-> <<TRUE>>, used_args |-> <<TRUE>>])
    ELSE None

\* The HIR of the crate: u, f, s, imp and o are items of the root module, m is
\* a module of o with the items g and t, h is the method of imp.
ItemKind(id) ==
    CASE id \in {"f", "g"} -> "Fn"
      [] id \in {"s", "t"} -> "Struct"
      [] id \in {"o", "m"} -> "Mod"
      [] id = "imp" -> "Impl"
      [] id = "u" -> "Use"

item_ids(id) ==
    CASE id = "o" -> <<"m">>
      [] id = "m" -> <<"g", "t">>
      [] OTHER -> <<>>
impl_items(id) == IF id = "imp" THEN <<"h">> ELSE <<>>

\* The module a name lies in; the name of a module lies in that module.
ModuleOf(id) == IF id \in {"m", "g", "t"} THEN "m" ELSE "root"

\* names::hir_item_to_name: none for the items that are to be ignored
hir_item_to_name(id) == IF ItemKind(id) = "Use" THEN None ELSE Some(id)

\* Name::is_in_modules(&crate_info.crate_name, &crate_info.opaque)
is_in_modules(name, opaque) == ModuleOf(name) \in opaque

\* A call terminator: the callee, its type arguments and the types of its operands
Call(fid, substs, args) == [fid |-> fid, substs |-> substs, args |-> args]

\* The explored crates.  The types of the local variable of f and of g, of the
\* field of s and of t, the calls of f and of g, the order in which
\* tcx.hir().items() yields the items and the opaque modules vary.
Unit(did) == TyAdt(did, <<>>)

LocalTysOf(fid) ==
    CASE fid = "f" -> {TyBool, Unit("s"), Unit("xt"), TyRef(TyRawPtr),
                       TyAdt("Box", <<GenType(Unit("t")), GenType(Unit("Global"))>>),
                       TyAdt("Box", <<GenType(TyRawPtr), GenType(Unit("Global"))>>)}
      [] fid = "g" -> {TyBool, TyRawPtr}
      [] fid = "h" -> {TyBool}

CallsOf(fid) ==
    CASE fid = "f" -> {Call("g", <<>>, <<>>),
                       Call("h", <<>>, <<TyBool>>),
                       Call("xf", <<GenLifetime, GenType(TyParam)>>, <<TyBool>>),
                       Call("xf", <<>>, <<TySlice(TyForeign)>>),
                       Call("box_new", <<GenType(Unit("t"))>>, <<Unit("t")>>)}
      [] fid = "g" -> {Call("f", <<>>, <<>>)}
      [] fid = "h" -> {}

FieldTysOf(did) ==
    CASE did = "s" -> {TyBool, Unit("t"), TyRef(Unit("s")), TyTuple(<<TyBool, TyForeign>>)}
      [] did = "t" -> {TyBool, Unit("s"), Unit("xt")}

SeqsUpTo(S, n) == UNION {[1..k -> S] : k \in 0..n}

ItemOrders ==
    {<<"u", "f", "s", "imp", "o", "m", "g", "t">>, <<"t", "g", "m", "o", "imp", "s", "f", "u">>}

OpaqueSets == {{}, {"m"}}

Body(local_decls, calls) == [local_decls |-> local_decls, calls |-> calls]

\* The crate: what tcx answers about it, and its CrateInfo.
Crate(items, opaque, lf, cf, lg, cg, fs, ft) ==
    [items |-> items,
     crate_info |-> [crate_name |-> "root", opaque |-> opaque],
     mir |-> [fid \in LocalFuns |->
                 CASE fid = "f" -> Body(<<lf>>, cf)
                   [] fid = "g" -> Body(<<lg>>, cg)
                   [] fid = "h" -> Body(<<TyBool>>, <<>>)],
     fields |-> [did \in LocalAdts |-> IF did = "s" THEN <<fs>> ELSE <<ft>>]]

\* RegisteredDeclarations::new; a map is a function on its keys
EmptyMap == [k \in {} |-> None]

RegisteredDeclarations_new ==
    [decls |-> {}, types |-> EmptyMap, opaque_types |-> {},
     funs |-> EmptyMap, opaque_funs |-> {}]

\* RegisteredTypeDeclaration and RegisteredFunDeclaration
RegisteredTypeDeclaration(id, deps) == [type_id |-> id, deps |-> deps]
RegisteredFunDeclaration(id, deps_tys, deps_funs) ==
    [fun_id |-> id, deps_tys |-> deps_tys, deps_funs |-> deps_funs]

\* LinkedHashMap::insert
MapInsert(map, k, v) == [x \in DOMAIN map \cup {k} |-> IF x = k THEN v ELSE map[x]]

Bump(count, id) == [count EXCEPT ![id] = @ + 1]

(***************************************************************************)
(* The calls in progress.  A frame is a call of register_crate, of         *)
(* register_hir_item on a module or an impl block, of                      *)
(* register_local_function or of register_local_adt; work lists what the   *)
(* call has still to do, in order.  The calls of register_mir_ty and of    *)
(* register_mir_substs add to the work of the frame that owns the          *)
(* dependency sets they fill.                                              *)
(***************************************************************************)
Frame(fn, id, entered, work) ==
    [fn |-> fn, id |-> id, entered |-> entered, work |-> work,
     deps_tys |-> {}, deps_funs |-> {}]

ItemTask(id, top_item) == [task |-> "item", id |-> id, top_item |-> top_item]
ImplItemTask(id) == [task |-> "impl_item", id |-> id]
TyTask(ty) == [task |-> "ty", ty |-> ty]
CallTask(call) == [task |-> "call", call |-> call]
LocalAdtTask(did) == [task |-> "local_adt", did |-> did]
NonLocalAdtTask(did) == [task |-> "non_local_adt", did |-> did]
NonLocalFunTask(fid) == [task |-> "non_local_fun", fid |-> fid]

Top == stack[Len(stack)]

\* The stack once the innermost call has taken the first piece of its work and
\* has put more in front of the rest.
Taken(more) == [stack EXCEPT ![Len(stack)].work = more \o Tail(@)]

Doing(task) ==
    /\ pc = "registering"
    /\ stack # <<>>
    /\ Top.entered
    /\ Top.work # <<>>
    /\ Head(Top.work).task = task

\* zip(used).filter_map(..): the elements flagged as used; zip stops with the
\* shorter of the two
RECURSIVE FilterUsed(_, _)
FilterUsed(xs, used) ==
    IF xs = <<>> \/ used = <<>> THEN <<>>
    ELSE (IF Head(used) THEN <<Head(xs)>> ELSE <<>>) \o FilterUsed(Tail(xs), Tail(used))

RECURSIVE TypeArgs(_)
TypeArgs(params) ==
    IF params = <<>> THEN <<>>
    ELSE (IF Head(params).arg = "Type" THEN <<TyTask(Head(params).ty)>> ELSE <<>>)
         \o TypeArgs(Tail(params))

\* register_mir_substs, had it explored every argument.
register_mir_substs_unfiltered(used_params, substs) == TypeArgs(substs)

\* register_mir_substs: the calls of register_mir_ty it makes, in order
register_mir_substs(used_params, substs) ==
    TypeArgs(IF is_some(used_params) THEN FilterUsed(substs, used_params.value) ELSE substs)

TyTasks(tys) == [i \in DOMAIN tys |-> TyTask(tys[i])]

DeclsInsert(def_id) == [rdecls EXCEPT !.decls = @ \cup {def_id}]

Pop == SubSeq(stack, 1, Len(stack) - 1)

\* What the registration leaves alone of the other passes.
others == <<st, out, prev, defs, todo, done, blocks, nalloc, hash_seed, self_ty, rset>>

\* register_hir_item(crate_info, rdecls, sess, tcx, top_item, item)
register_hir_item ==
    /\ Doing("item")
    /\ LET t == Head(Top.work)
           def_id == t.id
           name == hir_item_to_name(def_id)
           opaque == crate.crate_info.opaque
           ignored == /\ t.top_item
                      /\ \/ ~is_some(name)
                         \/ is_in_modules(name.value, opaque)
           kind == ItemKind(def_id)
       IN  IF def_id \in rdecls.decls \/ ignored
           THEN stack' = Taken(<<>>) /\ UNCHANGED rdecls
           ELSE CASE kind \in {"Enum", "Struct"} ->
                       /\ rdecls' = DeclsInsert(def_id)
                       /\ stack' = Append(Taken(<<>>),
                                          Frame("register_local_adt", def_id, FALSE, <<>>))
                  [] kind = "Fn" ->
                       /\ rdecls' = DeclsInsert(def_id)
                       /\ stack' = Append(Taken(<<>>),
                                          Frame("register_local_function", def_id, FALSE, <<>>))
                  [] kind = "Impl" ->
                       /\ stack' = Taken([i \in DOMAIN impl_items(def_id) |->
                                             ImplItemTask(impl_items(def_id)[i])])
                       /\ UNCHANGED rdecls
                  [] kind = "Mod" ->
                       /\ stack' = IF is_in_modules(def_id, opaque) THEN Taken(<<>>)
                                   ELSE Taken([i \in DOMAIN item_ids(def_id) |->
                                                  ItemTask(item_ids(def_id)[i], FALSE)])
                       /\ UNCHANGED rdecls
                  [] OTHER -> stack' = Taken(<<>>) /\ UNCHANGED rdecls
    /\ UNCHANGED <<pc, result, crate, audit, others>>

\* register_hir_impl_item, had it not looked the item up in decls.
register_hir_impl_item_unchecked ==
    /\ Doing("impl_item")
    /\ LET def_id == Head(Top.work).id
       IN  /\ rdecls' = DeclsInsert(def_id)
           /\ stack' = Append(Taken(<<>>),
                              Frame("register_local_function", def_id, FALSE, <<>>))
    /\ UNCHANGED <<pc, result, crate, audit, others>>

\* register_hir_impl_item(crate_info, rdecls, sess, tcx, impl_item)
register_hir_impl_item ==
    /\ Doing("impl_item")
    /\ LET def_id == Head(Top.work).id
       IN  IF def_id \in rdecls.decls
           THEN stack' = Taken(<<>>) /\ UNCHANGED rdecls
           ELSE /\ rdecls' = DeclsInsert(def_id)
                /\ stack' = Append(Taken(<<>>),
                                   Frame("register_local_function", def_id, FALSE, <<>>))
    /\ UNCHANGED <<pc, result, crate, audit, others>>

Called(fn) ==
    /\ pc = "registering"
    /\ stack # <<>>
    /\ Top.fn = fn
    /\ ~Top.entered

Finished(fn) ==
    /\ pc = "registering"
    /\ stack # <<>>
    /\ Top.fn = fn
    /\ Top.entered
    /\ Top.work = <<>>

\* register_local_function_body: the local variables, then the calls
BodyWork(body) ==
    TyTasks(body.local_decls) \o [i \in DOMAIN body.calls |-> CallTask(body.calls[i])]

\* register_local_function, had it explored the body of a function of an
\* opaque module as well.
register_local_function_transparent ==
    /\ Called("register_local_function")
    /\ stack' = [stack EXCEPT ![Len(stack)].entered = TRUE,
                              ![Len(stack)].work = BodyWork(crate.mir[Top.id])]
    /\ audit' = [audit EXCEPT !.explored = Bump(@, Top.id)]
    /\ UNCHANGED <<pc, result, crate, rdecls, others>>

\* register_local_function, up to the exploration of the body
register_local_function ==
    /\ Called("register_local_function")
    /\ LET def_id == Top.id
       IN  IF is_in_modules(def_id, crate.crate_info.opaque)
           THEN /\ rdecls' = [rdecls EXCEPT
                                !.funs = MapInsert(@, def_id,
                                                   RegisteredFunDeclaration(def_id, {}, {})),
                                !.opaque_funs = @ \cup {def_id}]
                /\ stack' = Pop
                /\ audit' = [audit EXCEPT !.inserted = Bump(@, def_id)]
           ELSE /\ stack' = [stack EXCEPT ![Len(stack)].entered = TRUE,
                                          ![Len(stack)].work = BodyWork(crate.mir[def_id])]
                /\ audit' = [audit EXCEPT !.explored = Bump(@, def_id)]
                /\ UNCHANGED rdecls
    /\ UNCHANGED <<pc, result, crate, others>>

\* register_local_function once the body is explored
register_local_function_return ==
    /\ Finished("register_local_function")
    /\ rdecls' = [rdecls EXCEPT
                    !.funs = MapInsert(@, Top.id,
                                       RegisteredFunDeclaration(Top.id, Top.deps_tys,
                                                                Top.deps_funs))]
    /\ stack' = Pop
    /\ audit' = [audit EXCEPT !.inserted = Bump(@, Top.id)]
    /\ UNCHANGED <<pc, result, crate, others>>

\* register_local_adt, up to the exploration of the variants; the frame keeps
\* rtype_decl.deps in deps_tys
register_local_adt ==
    /\ Called("register_local_adt")
    /\ LET type_id == Top.id
       IN  IF is_in_modules(type_id, crate.crate_info.opaque)
           THEN /\ rdecls' = [rdecls EXCEPT
                                !.types = MapInsert(@, type_id,
                                                    RegisteredTypeDeclaration(type_id, {})),
                                !.opaque_types = @ \cup {type_id}]
                /\ stack' = Pop
                /\ audit' = [audit EXCEPT !.inserted = Bump(@, type_id)]
           ELSE /\ stack' = [stack EXCEPT ![Len(stack)].entered = TRUE,
                                          ![Len(stack)].work = TyTasks(crate.fields[type_id])]
                /\ audit' = [audit EXCEPT !.explored = Bump(@, type_id)]
                /\ UNCHANGED rdecls
    /\ UNCHANGED <<pc, result, crate, others>>

\* register_local_adt once the variants are explored
register_local_adt_return ==
    /\ Finished("register_local_adt")
    /\ rdecls' = [rdecls EXCEPT
                    !.types = MapInsert(@, Top.id,
                                        RegisteredTypeDeclaration(Top.id, Top.deps_tys))]
    /\ stack' = Pop
    /\ audit' = [audit EXCEPT !.inserted = Bump(@, Top.id)]
    /\ UNCHANGED <<pc, result, crate, others>>

\* Result::Err(()), which every caller hands on with `?`
Err == [ok |-> FALSE]
Ok(value) == [ok |-> TRUE, value |-> value]

\* register_mir_ty(crate_info, rdecls, sess, tcx, span, deps, ty)
register_mir_ty ==
    /\ Doing("ty")
    /\ LET ty == Head(Top.work).ty
       IN  IF ty.kind \in UnsupportedKinds
           THEN /\ pc' = "returned"
                /\ result' = Err
                /\ stack' = <<>>
                /\ rdecls' = None
           ELSE /\ stack' =
                     CASE ty.kind = "Adt" ->
                            LET used_params == IF is_local(ty.did) THEN None
                                               ELSE type_to_used_params(ty.did)
                                is_prim == ~is_local(ty.did) /\ is_some(used_params)
                                more == register_mir_substs(used_params, ty.substs)
                                        \o <<IF is_local(ty.did) THEN LocalAdtTask(ty.did)
                                             ELSE NonLocalAdtTask(ty.did)>>
                            IN  [Taken(more) EXCEPT ![Len(stack)].deps_tys =
                                    IF is_prim THEN @ ELSE @ \cup {ty.did}]
                       [] ty.kind = "Array" -> Taken(<<TyTask(ty.ty), TyTask(ty.const_ty)>>)
                       [] ty.kind \in {"Slice", "Ref"} -> Taken(<<TyTask(ty.ty)>>)
                       [] ty.kind \in {"Tuple", "FnPtr"} -> Taken(TyTasks(ty.tys))
                       [] OTHER -> Taken(<<>>)
                /\ UNCHANGED <<pc, result, rdecls>>
    /\ UNCHANGED <<crate, audit, others>>

\* The end of the Adt arm of register_mir_ty for a local type, had it not
\* looked the type up in decls.
register_mir_ty_local_adt_unchecked ==
    /\ Doing("local_adt")
    /\ LET did == Head(Top.work).did
       IN  /\ rdecls' = DeclsInsert(did)
           /\ stack' = Append(Taken(<<>>), Frame("register_local_adt", did, FALSE, <<>>))
    /\ UNCHANGED <<pc, result, crate, audit, others>>

\* The end of the Adt arm of register_mir_ty for a local type
register_mir_ty_local_adt ==
    /\ Doing("local_adt")
    /\ LET did == Head(Top.work).did
       IN  IF did \in rdecls.decls
           THEN stack' = Taken(<<>>) /\ UNCHANGED rdecls
           ELSE /\ rdecls' = DeclsInsert(did)
                /\ stack' = Append(Taken(<<>>), Frame("register_local_adt", did, FALSE, <<>>))
    /\ UNCHANGED <<pc, result, crate, audit, others>>

\* register_non_local_adt(crate_info, rdecls, sess, tcx, adt, name)
register_non_local_adt ==
    /\ Doing("non_local_adt")
    /\ LET type_id == Head(Top.work).did
       IN  IF is_some(type_to_used_params(type_id)) \/ type_id \in rdecls.decls
           THEN UNCHANGED <<rdecls, audit>>
           ELSE /\ rdecls' = [rdecls EXCEPT
                                !.decls = @ \cup {type_id},
                                !.types = MapInsert(@, type_id,
                                                    RegisteredTypeDeclaration(type_id, {})),
                                !.opaque_types = @ \cup {type_id}]
                /\ audit' = [audit EXCEPT !.inserted = Bump(@, type_id)]
    /\ stack' = Taken(<<>>)
    /\ UNCHANGED <<pc, result, crate, others>>

\* tcx.hir().get_if_local(fid): the HIR node of a local function
HirNode(fid) == IF fid \in {"h"} THEN "ImplItem" ELSE "Item"

\* The Call arm of register_local_function_body
register_local_function_body_call ==
    /\ Doing("call")
    /\ LET c == Head(Top.work).call
           fid == c.fid
           info == IF is_local(fid) THEN None ELSE function_to_info(fid)
           is_prim == is_some(info)
           used_types == IF is_prim THEN Some(info.value.used_type_params) ELSE None
           used_args == IF is_prim THEN Some(info.value.used_args) ELSE None
           args == IF fid = BOX_FREE_NAME THEN <<>>
                   ELSE IF is_some(used_args) THEN FilterUsed(c.args, used_args.value)
                   ELSE c.args
           callee == IF ~is_local(fid) THEN NonLocalFunTask(fid)
                     ELSE IF HirNode(fid) = "Item" THEN ItemTask(fid, FALSE)
                     ELSE ImplItemTask(fid)
           more == register_mir_substs(used_types, c.substs) \o TyTasks(args) \o <<callee>>
       IN  stack' = [Taken(more) EXCEPT ![Len(stack)].deps_funs =
                        IF is_prim THEN @ ELSE @ \cup {fid}]
    /\ UNCHANGED <<pc, result, rdecls, crate, audit, others>>

\* register_non_local_function(crate_info, rdecls, sess, tcx, def_id, name)
register_non_local_function ==
    /\ Doing("non_local_fun")
    /\ LET def_id == Head(Top.work).fid
       IN  IF is_some(function_to_info(def_id)) \/ def_id \in rdecls.decls
           THEN UNCHANGED <<rdecls, audit>>
           ELSE /\ rdecls' = [rdecls EXCEPT
                                !.decls = @ \cup {def_id},
                                !.funs = MapInsert(@, def_id,
                                                   RegisteredFunDeclaration(def_id, {}, {})),
                                !.opaque_funs = @ \cup {def_id}]
                /\ audit' = [audit EXCEPT !.inserted = Bump(@, def_id)]
    /\ stack' = Taken(<<>>)
    /\ UNCHANGED <<pc, result, crate, others>>

\* register_crate returns Ok(registered_decls) once every item is registered
register_crate_return ==
    /\ Finished("register_crate")
    /\ pc' = "returned"
    /\ result' = Ok(rdecls)
    /\ stack' = <<>>
    /\ UNCHANGED <<rdecls, crate, audit, others>>

\* register_crate is called: it is about to iterate over tcx.hir().items()
InitRegister ==
    /\ pc = "registering"
    /\ \E items \in ItemOrders, opaque \in OpaqueSets,
          lf \in LocalTysOf("f"), cf \in SeqsUpTo(CallsOf("f"), MaxCalls),
          lg \in LocalTysOf("g"), cg \in SeqsUpTo(CallsOf("g"), MaxCalls),
          fs \in FieldTysOf("s"), ft \in FieldTysOf("t") :
            crate = Crate(items, opaque, lf, cf, lg, cg, fs, ft)
    /\ rdecls = RegisteredDeclarations_new
    /\ stack = <<Frame("register_crate", "root", TRUE,
                       [i \in DOMAIN crate.items |-> ItemTask(crate.items[i], TRUE)])>>
    /\ audit = [explored |-> [d \in DefIds |-> 0], inserted |-> [d \in DefIds |-> 0]]
    /\ self_ty = None
    /\ rset = {}
    /\ result = None
    /\ st = None
    /\ out = None
    /\ prev = None
    /\ defs = <<>>
    /\ todo = <<>>
    /\ done = <<>>
    /\ blocks = <<>>
    /\ nalloc = 0
    /\ hash_seed = 0

NextRegister ==
    \/ register_hir_item
    \/ register_hir_impl_item
    \/ register_local_function
    \/ register_local_function_return
    \/ register_local_adt
    \/ register_local_adt_return
    \/ register_mir_ty
    \/ register_mir_ty_local_adt
    \/ register_non_local_adt
    \/ register_local_function_body_call
    \/ register_non_local_function
    \/ register_crate_return

\* register_crate is one sequential call: it runs until it returns.
SpecRegister == InitRegister /\ [][NextRegister]_vars /\ WF_vars(NextRegister)

(***************************************************************************)
(* Properties of the registration.                                         *)
(***************************************************************************)
Registering == pc = "registering"
ReturnedOk == pc = "returned" /\ result.ok

\* C14: decls holds only def ids local to the crate, in every state reached
\* during register_crate and in the result it returns.
C14_DeclsOnlyLocal ==
    /\ Registering => \A d \in rdecls.decls : is_local(d)
    /\ ReturnedOk => \A d \in result.value.decls : is_local(d)

\* C15: opaque_types and opaque_funs, as register_crate returns them, hold only
\* local declarations found in modules marked opaque: no non-local type or
\* function is in either set.
C15_OpaqueOnlyLocal ==
    ReturnedOk =>
        \A d \in result.value.opaque_types \cup result.value.opaque_funs :
            is_local(d) /\ is_in_modules(d, crate.crate_info.opaque)

\* f calls g and g calls f; s has a field of type t and t a field of type s.
CallsFun(caller, callee) ==
    \E i \in DOMAIN crate.mir[caller].calls : crate.mir[caller].calls[i].fid = callee

RecursiveCrate ==
    /\ CallsFun("f", "g") /\ CallsFun("g", "f")
    /\ crate.fields["s"] = <<Unit("t")>> /\ crate.fields["t"] = <<Unit("s")>>

ExploredAtMostOnce == Registering => \A d \in DefIds : audit.explored[d] <= 1

\* C18: register_crate returns, whatever the cycles among the functions and
\* among the types of the crate, and until then the body of a function or the
\* fields of a type are explored at most once.
C18_Terminates == <>(pc = "returned") /\ []ExploredAtMostOnce

C18_Witness ==
    /\ ReturnedOk
    /\ crate.crate_info.opaque = {}
    /\ RecursiveCrate
    /\ \A d \in {"f", "g", "s", "t"} : audit.explored[d] = 1

\* The calls of fn in progress, as positions in the stack.
CallsOn(fn) == {i \in DOMAIN stack : stack[i].fn = fn}

\* C19: when register_local_function or register_local_adt is called on an id,
\* and as long as the call runs, the id is in decls and is not a key of funs
\* (of types); no id is inserted twice into funs or types, so that no entry is
\* ever overwritten.
C19_CalledOnce ==
    Registering =>
        /\ \A i \in CallsOn("register_local_function") :
              stack[i].id \in rdecls.decls /\ stack[i].id \notin DOMAIN rdecls.funs
        /\ \A i \in CallsOn("register_local_adt") :
              stack[i].id \in rdecls.decls /\ stack[i].id \notin DOMAIN rdecls.types
        /\ \A d \in DefIds : audit.inserted[d] <= 1

\* f calls the method h, which the iteration over the items meets as well:
\* both registered once.
C19_Witness ==
    /\ ReturnedOk
    /\ CallsFun("f", "h")
    /\ audit.inserted["f"] = 1
    /\ audit.inserted["h"] = 1
    /\ {"f", "h"} \subseteq DOMAIN result.value.funs

IsOpaque(d) == is_local(d) /\ is_in_modules(d, crate.crate_info.opaque)

\* The step of register_hir_item on an item of an opaque module that the
\* iteration over the crate yields, or on an opaque module: nothing is
\* registered, no call is made, no item of the module is looked at.
OpaqueItemIgnored ==
    (/\ Doing("item")
     /\ IsOpaque(Head(Top.work).id)
     /\ Head(Top.work).top_item \/ ItemKind(Head(Top.work).id) = "Mod")
        => /\ rdecls' = rdecls
           /\ audit' = audit
           /\ Len(stack') = Len(stack)
           /\ stack'[Len(stack)].work = Tail(Top.work)

\* A declaration of an opaque module is never explored; once registered it has
\* no dependency and is in opaque_funs or opaque_types.
OpaqueNeverExplored ==
    Registering =>
        \A d \in {x \in DefIds : IsOpaque(x)} :
            /\ audit.explored[d] = 0
            /\ d \in DOMAIN rdecls.funs =>
                  /\ rdecls.funs[d] = RegisteredFunDeclaration(d, {}, {})
                  /\ d \in rdecls.opaque_funs
            /\ d \in DOMAIN rdecls.types =>
                  /\ rdecls.types[d] = RegisteredTypeDeclaration(d, {})
                  /\ d \in rdecls.opaque_types

\* The dependencies of the registered declarations that lie in opaque modules
\* are registered themselves, as opaque.
OpaqueDependencyRegistered ==
    ReturnedOk =>
        LET r == result.value
        IN  /\ \A k \in DOMAIN r.funs :
                  /\ \A d \in {x \in r.funs[k].deps_funs : IsOpaque(x)} :
                        d \in DOMAIN r.funs /\ d \in r.opaque_funs
                  /\ \A d \in {x \in r.funs[k].deps_tys : IsOpaque(x)} :
                        d \in DOMAIN r.types /\ d \in r.opaque_types
            /\ \A k \in DOMAIN r.types :
                  \A d \in {x \in r.types[k].deps : IsOpaque(x)} :
                      d \in DOMAIN r.types /\ d \in r.opaque_types

\* C20: an item of an opaque module met by the iteration over the crate is not
\* registered and an opaque module is never descended into; a local function
\* or type of an opaque module reached as a dependency is registered without
\* dependencies, put in opaque_funs or opaque_types, and never explored.
C20_OpaqueModules ==
    /\ [][OpaqueItemIgnored]_vars
    /\ []OpaqueNeverExplored
    /\ []OpaqueDependencyRegistered

\* m is opaque; f calls g and s has a field of type t, g and t in m.
C20_Witness ==
    /\ ReturnedOk
    /\ crate.crate_info.opaque = {"m"}
    /\ CallsFun("f", "g")
    /\ crate.fields["s"] = <<Unit("t")>>
    /\ {"g"} \subseteq result.value.opaque_funs
    /\ {"t"} \subseteq result.value.opaque_types
    /\ audit.explored["g"] = 0 /\ audit.explored["t"] = 0
    /\ audit.explored["f"] = 1 /\ audit.explored["s"] = 1

\* The non-local types and functions with primitive support.
Primitives ==
    {d \in ExternalIds : is_some(type_to_used_params(d)) \/ is_some(function_to_info(d))}

\* Every def id a RegisteredDeclarations mentions, as a key, as a member of a
\* set or as a dependency.
Mentioned(r) ==
    r.decls \cup DOMAIN r.types \cup DOMAIN r.funs \cup r.opaque_types \cup r.opaque_funs
        \cup UNION {r.types[k].deps : k \in DOMAIN r.types}
        \cup UNION {r.funs[k].deps_tys \cup r.funs[k].deps_funs : k \in DOMAIN r.funs}

\* The dependencies collected so far by the calls in progress.
DepsInProgress == UNION {stack[i].deps_tys \cup stack[i].deps_funs : i \in DOMAIN stack}

BoxOfT == TyAdt("Box", <<GenType(Unit("t")), GenType(Unit("Global"))>>)

\* C21: Box and box_new are never registered and are no dependency of any
\* declaration; of the arguments of Box only the used one is explored: the
\* boxed type t becomes a dependency, the allocator Global is never looked at.
C21_PrimitivesNotRegistered ==
    /\ Registering =>
          (Mentioned(rdecls) \cup DepsInProgress) \cap (Primitives \cup {"Global"}) = {}
    /\ ReturnedOk =>
          /\ Mentioned(result.value) \cap (Primitives \cup {"Global"}) = {}
          /\ crate.mir["f"].local_decls = <<BoxOfT>> =>
                /\ "t" \in result.value.funs["f"].deps_tys
                /\ "t" \in DOMAIN result.value.types

C21_Witness ==
    /\ ReturnedOk
    /\ crate.mir["f"].local_decls = <<BoxOfT>>
    /\ CallsFun("f", "box_new")
    /\ "t" \in result.value.funs["f"].deps_tys
    /\ result.value.funs["f"].deps_funs = {}

\* Raw pointers, foreign types, generators, Infer and Error.
NotTranslatable == {"RawPtr", "Foreign", "Generator", "GeneratorWitness", "Infer", "Error"}

\* Such a type occurs in ty: ty itself, or under a reference, an array, a
\* slice, a tuple, a function pointer, or in a type argument that is explored
\* (of Box, the first argument only).
RECURSIVE HasUnsupported(_)
HasUnsupported(ty) ==
    CASE ty.kind \in NotTranslatable -> TRUE
      [] ty.kind \in {"Slice", "Ref"} -> HasUnsupported(ty.ty)
      [] ty.kind = "Array" -> HasUnsupported(ty.ty) \/ HasUnsupported(ty.const_ty)
      [] ty.kind \in {"Tuple", "FnPtr"} -> \E i \in DOMAIN ty.tys : HasUnsupported(ty.tys[i])
      [] ty.kind = "Adt" ->
            \E i \in DOMAIN ty.substs :
                /\ ty.did = "Box" => i = 1
                /\ ty.substs[i].arg = "Type"
                /\ HasUnsupported(ty.substs[i].ty)
      [] OTHER -> FALSE

\* Every type argument and every argument of the calls of the model is used.
CallHasUnsupported(c) ==
    \/ \E i \in DOMAIN c.substs : c.substs[i].arg = "Type" /\ HasUnsupported(c.substs[i].ty)
    \/ \E i \in DOMAIN c.args : HasUnsupported(c.args[i])

\* The crate has such a type in a position the registration explores: in a
\* function or a type that lies in no opaque module.
UnsupportedExplored ==
    \/ \E fid \in LocalFuns :
          /\ ~IsOpaque(fid)
          /\ \/ \E i \in DOMAIN crate.mir[fid].local_decls :
                    HasUnsupported(crate.mir[fid].local_decls[i])
             \/ \E i \in DOMAIN crate.mir[fid].calls :
                    CallHasUnsupported(crate.mir[fid].calls[i])
    \/ \E did \in LocalAdts :
          /\ ~IsOpaque(did)
          /\ \E i \in DOMAIN crate.fields[did] : HasUnsupported(crate.fields[did][i])

ReturnedErr == pc = "returned" /\ result = Err /\ rdecls = None

MaxTyDepth == 2
MaxTyArgs == 1

\* enum Region<Rid>
Region_Static == [region |-> "Static"]
Region_Var(rid) == [region |-> "Var", id |-> rid]

\* enum Ty<R>
Ty_Adt(id, regions, tys) == [variant |-> "Adt", id |-> id, regions |-> regions, tys |-> tys]
Ty_TypeVar(id) == [variant |-> "TypeVar", id |-> id]
Ty_Bool == [variant |-> "Bool"]
Ty_Char == [variant |-> "Char"]
Ty_Never == [variant |-> "Never"]
Ty_Integer(int_ty) == [variant |-> "Integer", int_ty |-> int_ty]
Ty_Str == [variant |-> "Str"]
Ty_Array(inner) == [variant |-> "Array", inner |-> inner]
Ty_Slice(inner) == [variant |-> "Slice", inner |-> inner]
Ty_Ref(r, inner, kind) == [variant |-> "Ref", region |-> r, inner |-> inner, kind |-> kind]

RegionVarIds == {0, 1}
RegionValues == {Region_Static} \cup {Region_Var(rid) : rid \in RegionVarIds}
RefKinds == {"Mut", "Shared"}

\* The types of nesting depth at most n.
RECURSIVE Tys(_)
Tys(n) ==
    IF n = 0
    THEN {Ty_Bool, Ty_Str, Ty_TypeVar(0)}
    ELSE LET T == Tys(n - 1)
         IN  T \cup {Ty_Array(t) : t \in T}
               \cup {Ty_Slice(t) : t \in T}
               \cup {Ty_Ref(r, t, k) : r \in RegionValues, t \in T, k \in RefKinds}
               \cup {Ty_Adt("Box", <<>>, <<t>>) : t \in T}
               \cup {Ty_Adt("Adt0", rs, ts) : rs \in SeqsUpTo(RegionValues, MaxTyArgs),
                                              ts \in SeqsUpTo(T, MaxTyArgs)}

Region_contains_var(r, rs) ==
    CASE r.region = "Static" -> FALSE
      [] r.region = "Var" -> r.id \in rs

RECURSIVE contains_region_var(_, _)
contains_region_var(t, rs) ==
    CASE t.variant = "TypeVar" -> FALSE
      [] t.variant \in {"Bool", "Char", "Never", "Integer", "Str"} -> FALSE
      [] t.variant \in {"Array", "Slice"} -> contains_region_var(t.inner, rs)
      [] t.variant = "Ref" -> Region_contains_var(t.region, rs)
      [] t.variant = "Adt" ->
            \E i \in DOMAIN t.regions :
                \/ Region_contains_var(t.regions[i], rs)
                \/ \E j \in DOMAIN t.tys : contains_region_var(t.tys[j], rs)

RECURSIVE contains_variables(_)
contains_variables(t) ==
    CASE t.variant = "TypeVar" -> TRUE
      [] t.variant \in {"Bool", "Char", "Never", "Integer", "Str"} -> FALSE
      [] t.variant \in {"Array", "Slice"} -> contains_variables(t.inner)
      [] t.variant = "Ref" -> TRUE
      [] t.variant = "Adt" ->
            \/ t.regions # <<>>
            \/ \E j \in DOMAIN t.tys : contains_variables(t.tys[j])

InitTypes ==
    /\ pc = "types"
    /\ self_ty \in Tys(MaxTyDepth)
    /\ rset \in SUBSET RegionVarIds
    /\ result = None
    /\ st = None
    /\ out = None
    /\ prev = None
    /\ defs = <<>>
    /\ todo = <<>>
    /\ done = <<>>
    /\ blocks = <<>>
    /\ nalloc = 0
    /\ hash_seed = 0
    /\ crate = None
    /\ rdecls = None
    /\ stack = <<>>
    /\ audit = None

CallContainsRegionVar ==
    /\ pc = "types"
    /\ pc' = "contains_region_var"
    /\ result' = Some(contains_region_var(self_ty, rset))
    /\ UNCHANGED <<crate, rdecls, stack, audit, others>>

CallContainsVariables ==
    /\ pc = "types"
    /\ pc' = "contains_variables"
    /\ result' = Some(contains_variables(self_ty))
    /\ UNCHANGED <<crate, rdecls, stack, audit, others>>

NextTypes == CallContainsRegionVar \/ CallContainsVariables

SpecTypes == InitTypes /\ [][NextTypes]_vars

(***************************************************************************)
(* Properties of the queries on types.                                     *)
(***************************************************************************)
\* Every region written in a type, at any depth.
RECURSIVE RegionsOf(_)
RegionsOf(t) ==
    CASE t.variant \in {"Array", "Slice"} -> RegionsOf(t.inner)
      [] t.variant = "Ref" -> {t.region} \cup RegionsOf(t.inner)
      [] t.variant = "Adt" ->
            {t.regions[i] : i \in DOMAIN t.regions}
                \cup UNION {RegionsOf(t.tys[j]) : j \in DOMAIN t.tys}
      [] OTHER -> {}

\* Every type variable written in a type, at any depth.
RECURSIVE TypeVarsOf(_)
TypeVarsOf(t) ==
    CASE t.variant = "TypeVar" -> {t.id}
      [] t.variant \in {"Array", "Slice", "Ref"} -> TypeVarsOf(t.inner)
      [] t.variant = "Adt" -> UNION {TypeVarsOf(t.tys[j]) : j \in DOMAIN t.tys}
      [] OTHER -> {}

RegionVarsOf(t) == {r.id : r \in {x \in RegionsOf(t) : x.region = "Var"}}

\* C16: contains_region_var(rset) returns true exactly when a region variable
\* of rset occurs somewhere in the type, at any depth: inside the type
\* arguments of an ADT without regions, inside the referent of a reference.
C16_ContainsRegionVar ==
    pc = "contains_region_var" =>
        (result.value <=> RegionVarsOf(self_ty) \cap rset # {})

\* C17: contains_variables returns true exactly when the type contains a
\* region variable or a type variable: it is false for a type whose regions
\* are all Static and that has no type variable.
C17_ContainsVariables ==
    pc = "contains_variables" =>
        (result.value <=> (RegionVarsOf(self_ty) # {} \/ TypeVarsOf(self_ty) # {}))

(***************************************************************************)
(* Properties of simplify_st on the loops of a statement.                  *)
(***************************************************************************)
\* The statements a node holds, from left to right.
Children(e) ==
    CASE e.tag = "Switch" ->
            IF e.targets.tag = "If"
            THEN <<e.targets.st1, e.targets.st2>>
            ELSE [i \in DOMAIN e.targets.targets |-> e.targets.targets[i][2]]
                 \o <<e.targets.otherwise>>
      [] e.tag = "Loop" -> <<e.body>>
      [] e.tag = "Sequence" -> <<e.st1, e.st2>>
      [] OTHER -> <<>>

\* For every leaf of e, from left to right, the number of loops around it,
\* nloops of them being around e itself.
RECURSIVE LoopDepths(_, _)
RECURSIVE LoopDepthsOfAll(_, _)
LoopDepths(e, nloops) ==
    IF Children(e) = <<>> THEN <<nloops>>
    ELSE LoopDepthsOfAll(Children(e), IF e.tag = "Loop" THEN nloops + 1 ELSE nloops)

LoopDepthsOfAll(es, nloops) ==
    IF es = <<>> THEN <<>>
    ELSE LoopDepths(Head(es), nloops) \o LoopDepthsOfAll(Tail(es), nloops)

\* The Break and Continue leaves of e, from left to right, each with the
\* number of loops around it.
RECURSIVE Exits(_, _)
RECURSIVE ExitsOfAll(_, _)
Exits(e, nloops) ==
    IF e.tag \in {"Break", "Continue"} THEN <<<<e, nloops>>>>
    ELSE ExitsOfAll(Children(e), IF e.tag = "Loop" THEN nloops + 1 ELSE nloops)

ExitsOfAll(es, nloops) ==
    IF es = <<>> THEN <<>>
    ELSE Exits(Head(es), nloops) \o ExitsOfAll(Tail(es), nloops)

\* C23: simplify_st keeps the number of loops around every leaf it keeps (the
\* folded Panic gives its place to the Assert), keeps every Break and Continue
\* with its index, and so returns a statement with well-formed depths when it
\* is given one.
C23_DepthsPreserved ==
    pc = "once" =>
        /\ LoopDepths(out, 0) = LoopDepths(st, 0)
        /\ Exits(out, 0) = Exits(st, 0)
        /\ DepthsWellFormed(st, 0) => DepthsWellFormed(out, 0)

\* A fold inside two loops, next to a Break that leaves both.
C23_Witness ==
    /\ pc = "once"
    /\ st = Loop(Loop(Switch("c1", If(Panic, Break(1)))))
    /\ out = Loop(Loop(Sequence(StAssert("c1", FALSE), Break(1))))
    /\ DepthsWellFormed(out, 0)

====
